---- MODULE Spec2Model ----
(***************************************************************************)
(* Cluster layer of the amqtt broker (package cluster): the registry of    *)
(* peer links, the accept and dial registration paths, topic               *)
(* synchronisation, the health pass and heartbeat loop, and the message    *)
(* processor.  One goroutine per link is modelled by pc[l]; every access   *)
(* to a shared structure (the registry, a link, the topic stores) is a     *)
(* step of its own, so that the interleavings the Go scheduler allows are  *)
(* the behaviours of the model.                                            *)
(*                                                                         *)
(* Names are sequences of characters, so that strings.TrimSpace is a       *)
(* computation and not the identity.  sent[l] is the sequence of frames    *)
(* handed to WritePacket on link l.                                        *)
(***************************************************************************)
EXTENDS Integers, Sequences, FiniteSets, TLC

\* ---------------------------------------------------------------- bounds
MaxLinks == 2      \* connections (accepted or dialed) created in one run
MaxTicks == 1      \* ticks the heartbeat ticker fires in one run
MaxRecv  == 2      \* frames one link's read loop receives before it ends
MaxSubs  == 3      \* local subscribers of one topic
MaxPubs  == 2      \* publish frames received on all links in one run

\* ------------------------------------------------------- program constants
TypServer == 0     \* config.TypServer: the link was accepted
TypClient == 1     \* config.TypClient: the link was dialed

\* ------------------------------------------------------------------ names
NameA == <<"a">>
NameB == <<"b">>
PadB  == <<" ", "b">>
ClusterName == <<"n">>        \* config.ClusterName(): this node's own name

IsSpace(c) == c \in {" ", "\t", "\n", "\r"}

RECURSIVE TrimLeft(_)
TrimLeft(s) ==
    IF s # <<>> /\ IsSpace(Head(s)) THEN TrimLeft(Tail(s)) ELSE s

RECURSIVE TrimRight(_)
TrimRight(s) ==
    IF s # <<>> /\ IsSpace(s[Len(s)]) THEN TrimRight(SubSeq(s, 1, Len(s) - 1)) ELSE s

\* strings.TrimSpace
TrimSpace(s) == TrimRight(TrimLeft(s))

\* config.Clusters(): the configured peers, in order
Clusters == << [Name |-> NameA, Host |-> "10.0.0.5:1883"],
               [Name |-> PadB,  Host |-> "10.0.0.6:1883"] >>

CfgIdx  == 1 .. Len(Clusters)
Nodes   == { Clusters[i] : i \in CfgIdx }
\* identities a connecting peer may present in its handshake
AcceptIds == { NameA, NameB }
\* every key the registry is read or written under
Keys == AcceptIds \cup { Clusters[i].Name : i \in CfgIdx }
                  \cup { TrimSpace(Clusters[i].Name) : i \in CfgIdx }

Topics  == { "t1", "t2" }
MsgIds  == { 7 }
LinkIds == 1 .. MaxLinks
NoLink  == 0

\* ----------------------------------------------------------------- frames
Packet(kind, id, topics, qoss, mid, flag) ==
    [kind |-> kind, id |-> id, topics |-> topics, qoss |-> qoss, mid |-> mid, flag |-> flag]

\* HandlerClient's handshake: ClientIdentifier = config.ClusterName(), CleanSession = true
ConnectPacket(id, clean) == Packet("connect", id, <<>>, <<>>, 0, clean)
\* ProcessConnect's reply: SessionPresent = cp.CleanSession
ConnackPacket(cp)        == Packet("connack", <<>>, <<>>, <<>>, 0, cp.flag)
\* syncNodeTopics' frame: Topics = []string{topic}, Qoss = []byte{0}
SubscribePacket(topic)   == Packet("subscribe", <<>>, <<topic>>, <<0>>, 0, FALSE)
PingreqPacket            == Packet("pingreq", <<>>, <<>>, <<>>, 0, FALSE)
PingrespPacket           == Packet("pingresp", <<>>, <<>>, <<>>, 0, FALSE)
SubackPacket(mid)        == Packet("suback", <<>>, <<>>, <<>>, mid, FALSE)
UnsubackPacket(mid)      == Packet("unsuback", <<>>, <<>>, <<>>, mid, FALSE)
PublishPacket(topic, retain, mid) == Packet("publish", <<>>, <<topic>>, <<>>, mid, retain)

VARIABLES
    nlinks,        \* connections created so far: links 1..nlinks exist
    pc,            \* pc[l]: where the goroutine that owns link l stands
    cid,           \* cid[l]: the link's identity (Client.SetId / GetId)
    typ,           \* typ[l]: TypServer or TypClient (Client.GetTyp)
    open,          \* open[l]: the connection has not been closed
    ltopics,       \* ltopics[l]: the link's own topic set (Client.Topics)
    sent,          \* sent[l]: frames handed to WritePacket on l, in order
    old,           \* old[l]: the entry the registration of l loaded
    cpkt,          \* cpkt[l]: the connect packet read on an accepted link
    work,          \* work[l]: topics the running handler still has to visit
    recvd,         \* recvd[l]: frames the read loop of l has received
    clusters,      \* the registry, s.Clusters(): key -> link
    clusterTopics, \* s.ClusterTopics(): <<topic, id>> -> subscribed link
    brokerTopics,  \* topics of the local topic store, s.BrokerTopics()
    retains,       \* retained-message store: topic -> retained frames
    tasks,         \* tasks[l][i]: the syncNodeTopics goroutine of l for Clusters[i]
    starting,      \* starting[c]: StartClient goroutines for node c still dialing
    chk,           \* chk[h]: the peer a CheckHealthy pass examines next (0: not running)
    hbpc,          \* HeartBeat's position: "select", "pass" or "returned"
    tickC,         \* a tick is waiting in the ticker's channel
    nticks,        \* ticks the ticker has fired
    npasses,       \* health passes the heartbeat loop has started
    cancelled,     \* c.ctx is done (Close was called)
    synclog,       \* synclog[l]: <<link, topic>> of every frame SyncTopics of l wrote
    stored,        \* the links stored in the registry, in the order of their Store
    dtopics,       \* dtopics[l]: the topic set of l when its ProcessDisconnect began
    req,           \* req[l]: the subscribe or unsubscribe request l processed last
    subscribers,   \* BrokerTopics().Subscribers(topic): the local subscribers, in order
    delivered,     \* delivered[c]: frames handed to WritePacket on local client c
    PubSent,       \* s.State().PubSent
    pub,           \* pub[l]: the publish the read loop of l is processing
    published      \* the publish frames whose ProcessPublish has returned, in order

vars == << nlinks, pc, cid, typ, open, ltopics, sent, old, cpkt, work, recvd,
           clusters, clusterTopics, brokerTopics, retains, tasks, starting,
           chk, hbpc, tickC, nticks, npasses, cancelled, synclog, stored, dtopics, req,
           subscribers, delivered, PubSent, pub, published >>

linkVars == << nlinks, pc, cid, typ, open, ltopics, sent, old, cpkt, work, recvd >>
hbVars   == << chk, hbpc, tickC, nticks, npasses, cancelled >>
storeVars == << brokerTopics, retains, subscribers, delivered, PubSent, pub, published >>

Passes == { "start", "hb" }

\* local clients of this node; two of them connected under the same client id
LocalClients == { "c1", "c2", "c3" }
GetId(c) == IF c = "c3" THEN "y" ELSE "x"
NoPublish == [pkt |-> PingreqPacket, subs |-> <<>>, todo |-> <<>>, history |-> {}, wrote |-> <<>>, n |-> 0]
\* packet.Topics and packet.MessageID of a request, and the number of frames
\* written on the link before it
NoRequest == [kind |-> "none", topics |-> <<>>, mid |-> 0, base |-> 0]
NoTask == [pc |-> "off", exist |-> NoLink, todo |-> {}]

\* Client.WritePacket(f) on link l
WritePacket(s, l, f) == [s EXCEPT ![l] = Append(@, f)]

Init ==
    /\ nlinks = 0
    /\ pc = [l \in LinkIds |-> "none"]
    /\ cid = [l \in LinkIds |-> <<>>]
    /\ typ = [l \in LinkIds |-> TypServer]
    /\ open = [l \in LinkIds |-> FALSE]
    /\ ltopics = [l \in LinkIds |-> {}]
    /\ sent = [l \in LinkIds |-> <<>>]
    /\ old = [l \in LinkIds |-> NoLink]
    /\ cpkt = [l \in LinkIds |-> PingreqPacket]
    /\ work = [l \in LinkIds |-> <<>>]
    /\ recvd = [l \in LinkIds |-> 0]
    /\ clusters = [k \in Keys |-> NoLink]
    /\ clusterTopics = [tk \in Topics \X Keys |-> NoLink]
    /\ brokerTopics \in { {"t1"}, {"t1", "t2"} }
    /\ subscribers = [t \in Topics |-> IF t \in brokerTopics THEN <<"c1">> ELSE <<>>]
    /\ delivered = [c \in LocalClients |-> <<>>]
    /\ PubSent = 0
    /\ pub = [l \in LinkIds |-> NoPublish]
    /\ published = <<>>
    /\ retains = [t \in Topics |-> IF t = "t1" THEN <<PublishPacket("t1", TRUE, 1)>> ELSE <<>>]
    /\ tasks = [l \in LinkIds |-> [i \in CfgIdx |-> NoTask]]
    /\ starting = [c \in Nodes |-> 0]
    /\ chk = [h \in Passes |-> IF h = "start" THEN 1 ELSE 0]
    /\ hbpc = "select"
    /\ tickC = FALSE
    /\ nticks = 0
    /\ npasses = 0
    /\ cancelled = FALSE
    /\ synclog = [l \in LinkIds |-> <<>>]
    /\ stored = <<>>
    /\ dtopics = [l \in LinkIds |-> {}]
    /\ req = [l \in LinkIds |-> NoRequest]

\* ------------------------------------------------------ HandlerServer
\* StartServer's accept loop, go c.HandlerServer(conn), and HandlerServer lines
\* 35-47: NewClient(conn, config.TypServer); ReadPacket fails, or the frame is no
\* connect packet: return; otherwise client.SetId(cp.ClientIdentifier)
HandlerServer_ReadPacket(ids) ==
    /\ nlinks < MaxLinks
    /\ LET l == nlinks + 1 IN
       /\ nlinks' = l
       /\ typ' = [typ EXCEPT ![l] = TypServer]
       /\ open' = [open EXCEPT ![l] = TRUE]
       /\ \/ /\ pc' = [pc EXCEPT ![l] = "rejected"]          \* err != nil
             /\ UNCHANGED << cid, cpkt >>
          \/ /\ pc' = [pc EXCEPT ![l] = "rejected"]          \* not a *ConnectPacket
             /\ cpkt' = [cpkt EXCEPT ![l] = PingreqPacket]
             /\ UNCHANGED cid
          \/ \E id \in ids :
               /\ cpkt' = [cpkt EXCEPT ![l] = ConnectPacket(id, TRUE)]
               /\ cid' = [cid EXCEPT ![l] = id]
               /\ pc' = [pc EXCEPT ![l] = "srv_load"]
    /\ UNCHANGED << ltopics, sent, old, work, recvd, clusters, clusterTopics, tasks,
                    starting, synclog, stored, dtopics, req >>
    /\ UNCHANGED << hbVars, storeVars >>

\* c.s.Clusters().Load(key): the registration of l reads the registry
LoadOld(l, key, ifOld, ifNone) ==
    /\ old' = [old EXCEPT ![l] = clusters[key]]
    /\ pc' = [pc EXCEPT ![l] = IF clusters[key] # NoLink THEN ifOld ELSE ifNone]
    /\ UNCHANGED << nlinks, cid, typ, open, ltopics, sent, cpkt, work, recvd, clusters,
                    clusterTopics, tasks, starting, synclog, stored, dtopics, req >>
    /\ UNCHANGED << hbVars, storeVars >>

\* a displacement that leaves the old link open
CloseOld_Skip(l, next) ==
    /\ pc' = [pc EXCEPT ![l] = next]
    /\ UNCHANGED << nlinks, cid, typ, open, ltopics, sent, old, cpkt, work, recvd, clusters,
                    clusterTopics, tasks, starting, synclog, stored, dtopics, req >>
    /\ UNCHANGED << hbVars, storeVars >>

\* oldClient.Close()
CloseOld(l, next) ==
    /\ open' = [open EXCEPT ![old[l]] = FALSE]
    /\ pc' = [pc EXCEPT ![l] = next]
    /\ UNCHANGED << nlinks, cid, typ, ltopics, sent, old, cpkt, work, recvd, clusters,
                    clusterTopics, tasks, starting, synclog, stored, dtopics, req >>
    /\ UNCHANGED << hbVars, storeVars >>

\* c.s.Clusters().Store(key, client)
StoreNew(l, key) ==
    /\ clusters' = [clusters EXCEPT ![key] = l]
    /\ stored' = Append(stored, l)
    /\ pc' = [pc EXCEPT ![l] = "sync"]
    /\ UNCHANGED << nlinks, cid, typ, open, ltopics, sent, old, cpkt, work, recvd,
                    clusterTopics, tasks, starting, synclog, dtopics, req >>
    /\ UNCHANGED << hbVars, storeVars >>

\* line 49
HandlerServer_Load(l) ==
    /\ pc[l] = "srv_load"
    /\ LoadOld(l, cid[l], "srv_close", "srv_connack")

\* lines 50-53
HandlerServer_Close(l) ==
    /\ pc[l] = "srv_close"
    /\ CloseOld(l, "srv_connack")

\* line 56 and ProcessConnect: the acknowledgment is written on the new link
ProcessConnect(l) ==
    /\ pc[l] = "srv_connack"
    /\ sent' = WritePacket(sent, l, ConnackPacket(cpkt[l]))
    /\ pc' = [pc EXCEPT ![l] = "srv_store"]
    /\ UNCHANGED << nlinks, cid, typ, open, ltopics, old, cpkt, work, recvd, clusters,
                    clusterTopics, tasks, starting, synclog, stored, dtopics, req >>
    /\ UNCHANGED << hbVars, storeVars >>

\* lines 57-58
HandlerServer_Store(l) ==
    /\ pc[l] = "srv_store"
    /\ StoreNew(l, cid[l])

\* ------------------------------------------------------ StartClient, HandlerClient
\* a dial that goes on to register its link although the handshake was not written
StartClient_GoOn(c) ==
    /\ starting[c] > 0
    /\ starting' = [starting EXCEPT ![c] = @ - 1]
    /\ \/ UNCHANGED << nlinks, pc, cid, typ, open, sent >>       \* dial error
       \/ /\ nlinks < MaxLinks
          /\ LET l == nlinks + 1 IN
             /\ nlinks' = l
             /\ typ' = [typ EXCEPT ![l] = TypClient]
             /\ open' = [open EXCEPT ![l] = TRUE]
             /\ cid' = [cid EXCEPT ![l] = c.Name]
             /\ \/ /\ sent' = WritePacket(sent, l, ConnectPacket(ClusterName, TRUE))
                   /\ pc' = [pc EXCEPT ![l] = "cli_load"]
                \/ /\ pc' = [pc EXCEPT ![l] = "cli_load"]      \* WritePacket error
                   /\ UNCHANGED sent
    /\ UNCHANGED << ltopics, old, cpkt, work, recvd, clusters, clusterTopics, tasks, synclog, stored, dtopics, req >>
    /\ UNCHANGED << hbVars, storeVars >>

\* a dial whose handshake carries the peer's name instead of this node's
StartClient_PeerName(c) ==
    /\ starting[c] > 0
    /\ starting' = [starting EXCEPT ![c] = @ - 1]
    /\ \/ UNCHANGED << nlinks, pc, cid, typ, open, sent >>       \* dial error
       \/ /\ nlinks < MaxLinks
          /\ LET l == nlinks + 1 IN
             /\ nlinks' = l
             /\ typ' = [typ EXCEPT ![l] = TypClient]
             /\ open' = [open EXCEPT ![l] = TRUE]
             /\ cid' = [cid EXCEPT ![l] = c.Name]
             /\ \/ /\ sent' = WritePacket(sent, l, ConnectPacket(c.Name, TRUE))
                   /\ pc' = [pc EXCEPT ![l] = "cli_load"]
                \/ /\ pc' = [pc EXCEPT ![l] = "failed"]      \* WritePacket error
                   /\ UNCHANGED sent
    /\ UNCHANGED << ltopics, old, cpkt, work, recvd, clusters, clusterTopics, tasks, synclog, stored, dtopics, req >>
    /\ UNCHANGED << hbVars, storeVars >>

\* StartClient: the dial fails (return), or HandlerClient runs on the new connection:
\* NewClient(conn, config.TypClient), SetId(cluster.Name), WritePacket(connect);
\* a failed write returns.
StartClient(c) ==
    /\ starting[c] > 0
    /\ starting' = [starting EXCEPT ![c] = @ - 1]
    /\ \/ UNCHANGED << nlinks, pc, cid, typ, open, sent >>       \* dial error
       \/ /\ nlinks < MaxLinks
          /\ LET l == nlinks + 1 IN
             /\ nlinks' = l
             /\ typ' = [typ EXCEPT ![l] = TypClient]
             /\ open' = [open EXCEPT ![l] = TRUE]
             /\ cid' = [cid EXCEPT ![l] = c.Name]
             /\ \/ /\ sent' = WritePacket(sent, l, ConnectPacket(ClusterName, TRUE))
                   /\ pc' = [pc EXCEPT ![l] = "cli_load"]
                \/ /\ pc' = [pc EXCEPT ![l] = "failed"]      \* WritePacket error
                   /\ UNCHANGED sent
    /\ UNCHANGED << ltopics, old, cpkt, work, recvd, clusters, clusterTopics, tasks, synclog, stored, dtopics, req >>
    /\ UNCHANGED << hbVars, storeVars >>

\* line 131
HandlerClient_Load(l) ==
    /\ pc[l] = "cli_load"
    /\ LoadOld(l, cid[l], "cli_close", "cli_store")

\* lines 132-135
HandlerClient_Close(l) ==
    /\ pc[l] = "cli_close"
    /\ CloseOld(l, "cli_store")

\* lines 136-137
HandlerClient_Store(l) ==
    /\ pc[l] = "cli_store"
    /\ StoreNew(l, cid[l])

\* ------------------------------------------------------ SyncTopics
\* lines 205-213: one syncNodeTopics goroutine per configured node whose Name
\* equals clientId (wg.Add(1); go c.syncNodeTopics)
SyncTopics(l) ==
    /\ pc[l] = "sync"
    /\ tasks' = [tasks EXCEPT ![l] =
                   [i \in CfgIdx |-> IF cid[l] = Clusters[i].Name
                                     THEN [pc |-> "load", exist |-> NoLink, todo |-> {}]
                                     ELSE NoTask]]
    /\ pc' = [pc EXCEPT ![l] = "wait"]
    /\ UNCHANGED << nlinks, cid, typ, open, ltopics, sent, old, cpkt, work, recvd, clusters,
                    clusterTopics, starting, synclog, stored, dtopics, req >>
    /\ UNCHANGED << hbVars, storeVars >>

\* lines 188-190: clientId := strings.TrimSpace(cluster.Name); Load(clientId);
\* without an entry (or without topics to range over) the task is done: wg.Done()
syncNodeTopics_Load(l, i) ==
    /\ tasks[l][i].pc = "load"
    /\ LET exist == clusters[TrimSpace(Clusters[i].Name)] IN
       tasks' = [tasks EXCEPT ![l][i] =
                   IF exist # NoLink /\ brokerTopics # {}
                   THEN [pc |-> "range", exist |-> exist, todo |-> brokerTopics]
                   ELSE [pc |-> "done", exist |-> exist, todo |-> {}]]
    /\ UNCHANGED << clusters, clusterTopics, starting, synclog, stored, dtopics, req >>
    /\ UNCHANGED << linkVars, hbVars, storeVars >>

\* lines 192-200: RangeTopics' callback for one topic: a subscribe frame with that
\* single topic and QoS 0 is written on the loaded link; after the last, wg.Done()
syncNodeTopics_Range(l, i) ==
    /\ tasks[l][i].pc = "range"
    /\ \E t \in tasks[l][i].todo :
         LET exist == tasks[l][i].exist
             rest  == tasks[l][i].todo \ {t}
         IN  /\ sent' = WritePacket(sent, exist, SubscribePacket(t))
             /\ synclog' = [synclog EXCEPT ![l] = Append(@, <<exist, t>>)]
             /\ tasks' = [tasks EXCEPT ![l][i] =
                            [pc |-> IF rest = {} THEN "done" ELSE "range",
                             exist |-> exist, todo |-> rest]]
    /\ UNCHANGED << nlinks, pc, cid, typ, open, ltopics, old, cpkt, work, recvd, clusters,
                    clusterTopics, starting, stored, dtopics, req >>
    /\ UNCHANGED << hbVars, storeVars >>

\* a SyncTopics that returns without waiting for its tasks
SyncTopics_NoWait(l) ==
    /\ pc[l] = "wait"
    /\ pc' = [pc EXCEPT ![l] = "readloop"]
    /\ UNCHANGED << nlinks, cid, typ, open, ltopics, sent, old, cpkt, work, recvd, clusters,
                    clusterTopics, starting, synclog, stored, dtopics, req, tasks >>
    /\ UNCHANGED << hbVars, storeVars >>

\* line 214: wg.Wait() returns when every task has called wg.Done(); the caller
\* goes on to client.ReadLoop
SyncTopics_Wait(l) ==
    /\ pc[l] = "wait"
    /\ \A i \in CfgIdx : tasks[l][i].pc \in { "off", "done" }
    /\ tasks' = [tasks EXCEPT ![l] = [i \in CfgIdx |-> NoTask]]
    /\ pc' = [pc EXCEPT ![l] = "readloop"]
    /\ UNCHANGED << nlinks, cid, typ, open, ltopics, sent, old, cpkt, work, recvd, clusters,
                    clusterTopics, starting, synclog, stored, dtopics, req >>
    /\ UNCHANGED << hbVars, storeVars >>

\* ------------------------------------------------------ Processor
\* topic lists a subscribe or unsubscribe frame may carry
TopicLists == { <<"t1">>, <<"t2">>, <<"t1", "t2">> }

\* ClusterTopics().Subscribe(topic, id, client)
Subscribe(ct, topic, id, l) == [ct EXCEPT ![<<topic, id>>] = l]
\* ClusterTopics().Unsubscribe(topic, id)
Unsubscribe(ct, topic, id) == [ct EXCEPT ![<<topic, id>>] = NoLink]
\* BrokerTopics().SearchRetain(topic)
SearchRetain(rs, topic) == rs[topic]
\* BrokerTopics().RemoveRetain(topic)
RemoveRetain(rs, topic) == [rs EXCEPT ![topic] = <<>>]

RECURSIVE WriteAll(_, _, _)
WriteAll(s, l, fs) ==
    IF fs = <<>> THEN s ELSE WriteAll(WritePacket(s, l, Head(fs)), l, Tail(fs))

\* Client.ReadLoop has read one more frame on an open link
Reads(l) ==
    /\ pc[l] = "readloop"
    /\ open[l]
    /\ recvd[l] < MaxRecv
    /\ recvd' = [recvd EXCEPT ![l] = @ + 1]

\* ProcessSubscribe lines 61-64: the acknowledgment carries the request's MessageID
ProcessSubscribe(l) ==
    /\ Reads(l)
    /\ \E ts \in TopicLists, mid \in MsgIds :
         /\ sent' = WritePacket(sent, l, SubackPacket(mid))
         /\ work' = [work EXCEPT ![l] = ts]
         /\ req' = [req EXCEPT ![l] = [kind |-> "subscribe", topics |-> ts, mid |-> mid,
                                       base |-> Len(sent[l])]]
    /\ pc' = [pc EXCEPT ![l] = "sub"]
    /\ UNCHANGED << nlinks, cid, typ, open, ltopics, old, cpkt, clusters, clusterTopics,
                    tasks, starting, synclog, stored, dtopics >>
    /\ UNCHANGED << hbVars, storeVars >>

\* ProcessSubscribe lines 66-74, one topic of the request
ProcessSubscribe_Topic(l) ==
    /\ pc[l] = "sub"
    /\ LET topic == Head(work[l]) IN
       /\ clusterTopics' = Subscribe(clusterTopics, topic, cid[l], l)
       /\ ltopics' = [ltopics EXCEPT ![l] = @ \cup {topic}]
       /\ sent' = WriteAll(sent, l, SearchRetain(retains, topic))
    /\ work' = [work EXCEPT ![l] = Tail(@)]
    /\ pc' = [pc EXCEPT ![l] = IF Len(work[l]) = 1 THEN "readloop" ELSE "sub"]
    /\ UNCHANGED << nlinks, cid, typ, open, old, cpkt, recvd, clusters, tasks, starting,
                    synclog, stored, dtopics, req >>
    /\ UNCHANGED << hbVars, storeVars >>

\* ProcessUnSubscribe lines 49-52
ProcessUnSubscribe(l) ==
    /\ Reads(l)
    /\ \E ts \in TopicLists, mid \in MsgIds :
         /\ sent' = WritePacket(sent, l, UnsubackPacket(mid))
         /\ work' = [work EXCEPT ![l] = ts]
         /\ req' = [req EXCEPT ![l] = [kind |-> "unsubscribe", topics |-> ts, mid |-> mid,
                                       base |-> Len(sent[l])]]
    /\ pc' = [pc EXCEPT ![l] = "unsub"]
    /\ UNCHANGED << nlinks, cid, typ, open, ltopics, old, cpkt, clusters, clusterTopics,
                    tasks, starting, synclog, stored, dtopics >>
    /\ UNCHANGED << hbVars, storeVars >>

\* ProcessUnSubscribe lines 54-57, one topic of the request
ProcessUnSubscribe_Topic(l) ==
    /\ pc[l] = "unsub"
    /\ LET topic == Head(work[l]) IN
       /\ clusterTopics' = Unsubscribe(clusterTopics, topic, cid[l])
       /\ ltopics' = [ltopics EXCEPT ![l] = @ \ {topic}]
    /\ work' = [work EXCEPT ![l] = Tail(@)]
    /\ pc' = [pc EXCEPT ![l] = IF Len(work[l]) = 1 THEN "readloop" ELSE "unsub"]
    /\ UNCHANGED << nlinks, cid, typ, open, sent, old, cpkt, recvd, clusters, tasks,
                    starting, synclog, stored, dtopics, req >>
    /\ UNCHANGED << hbVars, storeVars >>

\* ProcessPing
ProcessPing(l) ==
    /\ Reads(l)
    /\ sent' = WritePacket(sent, l, PingrespPacket)
    /\ UNCHANGED << nlinks, pc, cid, typ, open, ltopics, old, cpkt, work, clusters,
                    clusterTopics, tasks, starting, synclog, stored, dtopics, req >>
    /\ UNCHANGED << hbVars, storeVars >>

\* ProcessDisconnect line 88: p.s.Clusters().Delete(client.GetId()).  It runs for a
\* disconnect frame and when the read loop ends because reading failed: the link
\* was closed, or the network failed.
ProcessDisconnect(l) ==
    /\ pc[l] = "readloop"
    /\ clusters' = [clusters EXCEPT ![cid[l]] = NoLink]
    /\ dtopics' = [dtopics EXCEPT ![l] = ltopics[l]]
    /\ pc' = [pc EXCEPT ![l] = "disc_close"]
    /\ UNCHANGED << nlinks, cid, typ, open, ltopics, sent, old, cpkt, work, recvd,
                    clusterTopics, tasks, starting, synclog, stored, req >>
    /\ UNCHANGED << hbVars, storeVars >>

\* ProcessDisconnect line 89: client.Close()
ProcessDisconnect_Close(l) ==
    /\ pc[l] = "disc_close"
    /\ open' = [open EXCEPT ![l] = FALSE]
    /\ pc' = [pc EXCEPT ![l] = IF ltopics[l] = {} THEN "done" ELSE "disc_topics"]
    /\ UNCHANGED << nlinks, cid, typ, ltopics, sent, old, cpkt, work, recvd, clusters,
                    clusterTopics, tasks, starting, synclog, stored, dtopics, req >>
    /\ UNCHANGED << hbVars, storeVars >>

\* a cleanup that forgets the cluster-subscription registry
ProcessDisconnect_Topic_Keep(l) ==
    /\ pc[l] = "disc_topics"
    /\ \E topic \in ltopics[l] :
         /\ ltopics' = [ltopics EXCEPT ![l] = @ \ {topic}]
         /\ pc' = [pc EXCEPT ![l] = IF ltopics[l] = {topic} THEN "done" ELSE "disc_topics"]
    /\ UNCHANGED << nlinks, cid, typ, open, sent, old, cpkt, work, recvd, clusters, tasks,
                    starting, synclog, stored, dtopics, req, clusterTopics >>
    /\ UNCHANGED << hbVars, storeVars >>

\* ProcessDisconnect lines 92-96, one topic of client.Topics()
ProcessDisconnect_Topic(l) ==
    /\ pc[l] = "disc_topics"
    /\ \E topic \in ltopics[l] :
         /\ ltopics' = [ltopics EXCEPT ![l] = @ \ {topic}]
         /\ clusterTopics' = Unsubscribe(clusterTopics, topic, cid[l])
         /\ pc' = [pc EXCEPT ![l] = IF ltopics[l] = {topic} THEN "done" ELSE "disc_topics"]
    /\ UNCHANGED << nlinks, cid, typ, open, sent, old, cpkt, work, recvd, clusters, tasks,
                    starting, synclog, stored, dtopics, req >>
    /\ UNCHANGED << hbVars, storeVars >>

\* ------------------------------------------------------ ProcessPublish, DoPublish
\* ProcessMessage's case *packets.PublishPacket; ProcessPublish line 38 and
\* DoPublish lines 24-25: subs := Subscribers(topic); history := make(map)
ProcessPublish(l) ==
    /\ Reads(l)
    /\ Len(published) + Cardinality({ q \in LinkIds : pc[q] \in { "pub", "pub_add", "pub_retain" } })
         < MaxPubs
    /\ \E topic \in Topics, retain \in BOOLEAN, mid \in MsgIds :
         /\ pub' = [pub EXCEPT ![l] =
                      [pkt |-> PublishPacket(topic, retain, mid),
                       subs |-> subscribers[topic], todo |-> subscribers[topic],
                       history |-> {}, wrote |-> <<>>, n |-> 0]]
         /\ pc' = [pc EXCEPT ![l] = IF subscribers[topic] = <<>> THEN "pub_retain" ELSE "pub"]
    /\ UNCHANGED << nlinks, cid, typ, open, ltopics, sent, old, cpkt, work, clusters,
                    clusterTopics, tasks, starting, synclog, stored, dtopics, req >>
    /\ UNCHANGED << brokerTopics, retains, subscribers, delivered, PubSent, published >>
    /\ UNCHANGED hbVars

\* a fan-out that writes to every subscriber of the sequence
DoPublish_All(l) ==
    /\ pc[l] = "pub"
    /\ LET client == Head(pub[l].todo) IN
       /\ delivered' = WritePacket(delivered, client, pub[l].pkt)
       /\ pub' = [pub EXCEPT ![l].todo = Tail(@),
                             ![l].history = @ \cup { GetId(client) },
                             ![l].wrote = Append(@, client)]
       /\ pc' = [pc EXCEPT ![l] = "pub_add"]
    /\ UNCHANGED << nlinks, cid, typ, open, ltopics, sent, old, cpkt, work, recvd, clusters,
                    clusterTopics, tasks, starting, synclog, stored, dtopics, req >>
    /\ UNCHANGED << brokerTopics, retains, subscribers, PubSent, published >>
    /\ UNCHANGED hbVars

\* a fan-out that also writes the frame back on the link it came from
DoPublish_Echo(l) ==
    /\ pc[l] = "pub"
    /\ LET client == Head(pub[l].todo)
           rest   == Tail(pub[l].todo)
       IN  IF GetId(client) \notin pub[l].history
           THEN /\ delivered' = WritePacket(delivered, client, pub[l].pkt)
                /\ pub' = [pub EXCEPT ![l].todo = rest,
                                      ![l].history = @ \cup { GetId(client) },
                                      ![l].wrote = Append(@, client)]
                /\ pc' = [pc EXCEPT ![l] = "pub_add"]
                /\ sent' = WritePacket(sent, l, pub[l].pkt)
           ELSE /\ pub' = [pub EXCEPT ![l].todo = rest]
                /\ pc' = [pc EXCEPT ![l] = IF rest = <<>> THEN "pub_retain" ELSE "pub"]
                /\ UNCHANGED << delivered, sent >>
    /\ UNCHANGED << nlinks, cid, typ, open, ltopics, old, cpkt, work, recvd, clusters,
                    clusterTopics, tasks, starting, synclog, stored, dtopics, req >>
    /\ UNCHANGED << brokerTopics, retains, subscribers, PubSent, published >>
    /\ UNCHANGED hbVars

\* DoPublish lines 26-31, one iteration of the loop over subs: a subscriber whose
\* identity is not in history is entered there and the frame is written to it
DoPublish(l) ==
    /\ pc[l] = "pub"
    /\ LET client == Head(pub[l].todo)
           rest   == Tail(pub[l].todo)
       IN  IF GetId(client) \notin pub[l].history
           THEN /\ delivered' = WritePacket(delivered, client, pub[l].pkt)
                /\ pub' = [pub EXCEPT ![l].todo = rest,
                                      ![l].history = @ \cup { GetId(client) },
                                      ![l].wrote = Append(@, client)]
                /\ pc' = [pc EXCEPT ![l] = "pub_add"]
           ELSE /\ pub' = [pub EXCEPT ![l].todo = rest]
                /\ pc' = [pc EXCEPT ![l] = IF rest = <<>> THEN "pub_retain" ELSE "pub"]
                /\ UNCHANGED delivered
    /\ UNCHANGED << nlinks, cid, typ, open, ltopics, sent, old, cpkt, work, recvd, clusters,
                    clusterTopics, tasks, starting, synclog, stored, dtopics, req >>
    /\ UNCHANGED << brokerTopics, retains, subscribers, PubSent, published >>
    /\ UNCHANGED hbVars

\* DoPublish line 32: atomic.AddInt64(&p.s.State().PubSent, 1)
DoPublish_Add(l) ==
    /\ pc[l] = "pub_add"
    /\ PubSent' = PubSent + 1
    /\ pub' = [pub EXCEPT ![l].n = @ + 1]
    /\ pc' = [pc EXCEPT ![l] = IF pub[l].todo = <<>> THEN "pub_retain" ELSE "pub"]
    /\ UNCHANGED << nlinks, cid, typ, open, ltopics, sent, old, cpkt, work, recvd, clusters,
                    clusterTopics, tasks, starting, synclog, stored, dtopics, req >>
    /\ UNCHANGED << brokerTopics, retains, subscribers, delivered, published >>
    /\ UNCHANGED hbVars

\* a publish that removes the retained entry whatever its retain flag
ProcessPublish_Retain_Always(l) ==
    /\ pc[l] = "pub_retain"
    /\ retains' = RemoveRetain(retains, pub[l].pkt.topics[1])
    /\ published' = Append(published, pub[l].pkt)
    /\ pub' = [pub EXCEPT ![l] = NoPublish]
    /\ pc' = [pc EXCEPT ![l] = "readloop"]
    /\ UNCHANGED << nlinks, cid, typ, open, ltopics, sent, old, cpkt, work, recvd, clusters,
                    clusterTopics, tasks, starting, synclog, stored, dtopics, req >>
    /\ UNCHANGED << brokerTopics, subscribers, delivered, PubSent >>
    /\ UNCHANGED hbVars

\* ProcessPublish lines 43-45: if packet.Retain { RemoveRetain(topic) }
ProcessPublish_Retain(l) ==
    /\ pc[l] = "pub_retain"
    /\ retains' = IF pub[l].pkt.flag
                  THEN RemoveRetain(retains, pub[l].pkt.topics[1])
                  ELSE retains
    /\ published' = Append(published, pub[l].pkt)
    /\ pub' = [pub EXCEPT ![l] = NoPublish]
    /\ pc' = [pc EXCEPT ![l] = "readloop"]
    /\ UNCHANGED << nlinks, cid, typ, open, ltopics, sent, old, cpkt, work, recvd, clusters,
                    clusterTopics, tasks, starting, synclog, stored, dtopics, req >>
    /\ UNCHANGED << brokerTopics, subscribers, delivered, PubSent >>
    /\ UNCHANGED hbVars

\* ------------------------------------------------------ CheckHealthy, HeartBeat
\* a pass that dials a peer only when no dial to it is in flight
CheckHealthy_OneDial(h) ==
    /\ chk[h] \in CfgIdx
    /\ LET cluster == Clusters[chk[h]]
           exist   == clusters[TrimSpace(cluster.Name)]
       IN  /\ starting' = IF exist = NoLink /\ starting[cluster] = 0
                          THEN [starting EXCEPT ![cluster] = @ + 1]
                          ELSE starting
           /\ sent' = IF exist # NoLink /\ typ[exist] = TypClient
                      THEN WritePacket(sent, exist, PingreqPacket)
                      ELSE sent
    /\ chk' = [chk EXCEPT ![h] = IF chk[h] = Len(Clusters) THEN 0 ELSE chk[h] + 1]
    /\ hbpc' = IF h = "hb" /\ chk[h] = Len(Clusters) THEN "select" ELSE hbpc
    /\ UNCHANGED << nlinks, pc, cid, typ, open, ltopics, old, cpkt, work, recvd, clusters,
                    clusterTopics, tasks, synclog, stored, dtopics, req >>
    /\ UNCHANGED << tickC, nticks, npasses, cancelled, storeVars >>

\* lines 218-230, one iteration of the loop over config.Clusters(): without an
\* entry under the trimmed name, go c.StartClient(cluster); with an entry of type
\* TypClient, a ping is written on it; otherwise nothing.
CheckHealthy(h) ==
    /\ chk[h] \in CfgIdx
    /\ LET cluster == Clusters[chk[h]]
           exist   == clusters[TrimSpace(cluster.Name)]
       IN  /\ starting' = IF exist = NoLink
                          THEN [starting EXCEPT ![cluster] = @ + 1]
                          ELSE starting
           /\ sent' = IF exist # NoLink /\ typ[exist] = TypClient
                      THEN WritePacket(sent, exist, PingreqPacket)
                      ELSE sent
    /\ chk' = [chk EXCEPT ![h] = IF chk[h] = Len(Clusters) THEN 0 ELSE chk[h] + 1]
    /\ hbpc' = IF h = "hb" /\ chk[h] = Len(Clusters) THEN "select" ELSE hbpc
    /\ UNCHANGED << nlinks, pc, cid, typ, open, ltopics, old, cpkt, work, recvd, clusters,
                    clusterTopics, tasks, synclog, stored, dtopics, req >>
    /\ UNCHANGED << tickC, nticks, npasses, cancelled, storeVars >>

\* time.NewTicker(20 * time.Second): the ticker puts a tick in its channel, which
\* holds one tick; a tick that finds the channel full is dropped and changes nothing
Tick ==
    /\ nticks < MaxTicks
    /\ ~tickC
    /\ nticks' = nticks + 1
    /\ tickC' = TRUE
    /\ UNCHANGED << chk, hbpc, npasses, cancelled, clusters, clusterTopics, tasks,
                    starting, synclog, stored, dtopics, req >>
    /\ UNCHANGED << linkVars, storeVars >>

\* HeartBeat line 239-240: case <-tick.C: c.CheckHealthy()
HeartBeat_Tick ==
    /\ hbpc = "select"
    /\ tickC
    /\ tickC' = FALSE
    /\ hbpc' = "pass"
    /\ chk' = [chk EXCEPT !["hb"] = 1]
    /\ npasses' = npasses + 1
    /\ UNCHANGED << nticks, cancelled, clusters, clusterTopics, tasks, starting, synclog, stored, dtopics, req >>
    /\ UNCHANGED << linkVars, storeVars >>

\* a loop that returns only when no dial task is left
HeartBeat_Done_Wait ==
    /\ hbpc = "select"
    /\ cancelled
    /\ \A c \in Nodes : starting[c] = 0
    /\ hbpc' = "returned"
    /\ UNCHANGED << chk, tickC, nticks, npasses, cancelled, clusters, clusterTopics, tasks,
                    starting, synclog, stored, dtopics, req >>
    /\ UNCHANGED << linkVars, storeVars >>

\* HeartBeat line 237-238: case <-c.ctx.Done(): return
HeartBeat_Done ==
    /\ hbpc = "select"
    /\ cancelled
    /\ hbpc' = "returned"
    /\ UNCHANGED << chk, tickC, nticks, npasses, cancelled, clusters, clusterTopics, tasks,
                    starting, synclog, stored, dtopics, req >>
    /\ UNCHANGED << linkVars, storeVars >>

\* a shutdown that also closes every registered link and empties the registry
Close_Links ==
    /\ ~cancelled
    /\ cancelled' = TRUE
    /\ open' = [l \in LinkIds |-> open[l] /\ \A k \in Keys : clusters[k] # l]
    /\ clusters' = [k \in Keys |-> NoLink]
    /\ UNCHANGED << chk, hbpc, tickC, nticks, npasses, clusterTopics, tasks,
                    starting, synclog, stored, dtopics, req >>
    /\ UNCHANGED << nlinks, pc, cid, typ, ltopics, sent, old, cpkt, work, recvd >>
    /\ UNCHANGED storeVars

\* Close: c.cancel()
Close ==
    /\ ~cancelled
    /\ cancelled' = TRUE
    /\ UNCHANGED << chk, hbpc, tickC, nticks, npasses, clusters, clusterTopics, tasks,
                    starting, synclog, stored, dtopics, req >>
    /\ UNCHANGED << linkVars, storeVars >>

\* ------------------------------------------------------ the cluster
\* Accepting and registering a link (HandlerServer)
Accepting(ids) ==
    \/ HandlerServer_ReadPacket(ids)
    \/ \E l \in LinkIds : HandlerServer_Load(l)
    \/ \E l \in LinkIds : HandlerServer_Close(l)
    \/ \E l \in LinkIds : ProcessConnect(l)
    \/ \E l \in LinkIds : HandlerServer_Store(l)

\* Dialing and registering a link (StartClient, HandlerClient)
Dialing ==
    \/ \E c \in Nodes : StartClient(c)
    \/ \E l \in LinkIds : HandlerClient_Load(l)
    \/ \E l \in LinkIds : HandlerClient_Close(l)
    \/ \E l \in LinkIds : HandlerClient_Store(l)

\* SyncTopics on a link that was stored
Syncing ==
    \/ \E l \in LinkIds : SyncTopics(l)
    \/ \E l \in LinkIds : SyncTopics_Wait(l)

\* The syncNodeTopics goroutines
SyncTasks ==
    \/ \E l \in LinkIds, i \in CfgIdx : syncNodeTopics_Load(l, i)
    \/ \E l \in LinkIds, i \in CfgIdx : syncNodeTopics_Range(l, i)

\* The health passes, the ticker, the heartbeat loop and Close
Health ==
    \/ \E h \in Passes : CheckHealthy(h)
    \/ Tick
    \/ HeartBeat_Tick
    \/ HeartBeat_Done
    \/ Close

\* The end of a link: its read loop ends and ProcessDisconnect runs.  The loop
\* over the link's topics is a step of NextProc, where links have topics.
Ending ==
    \/ \E l \in LinkIds : ProcessDisconnect(l)
    \/ \E l \in LinkIds : ProcessDisconnect_Close(l)

\* The cluster manager: accepted and dialed links, their registration, topic
\* synchronisation, the health passes and the heartbeat loop, and the end of a link.
\* The frame handlers of NextProc are left out: they write sent, ltopics and
\* clusterTopics only, and never the registry, open, pc of a registration, tasks,
\* starting or the heartbeat's variables.
Next ==
    \/ Accepting(AcceptIds)
    \/ Dialing
    \/ Syncing
    \/ SyncTasks
    \/ Ending
    \/ Health

Spec == Init /\ [][Next]_vars

\* The heartbeat loop with the links it dials.  Accepted links are left out: they
\* write none of the heartbeat's variables.
NextHB ==
    \/ Dialing
    \/ Syncing
    \/ SyncTasks
    \/ Ending
    \/ Health

\* The heartbeat goroutine is scheduled: a pass it has begun goes through the
\* configured peers, and a select whose ctx.Done() case is ready again and again
\* takes it (select chooses among its ready cases at random).  Nothing is assumed
\* of the dial tasks, the registrations or the ticker.
SpecHB ==
    /\ Init /\ [][NextHB]_vars
    /\ WF_vars(CheckHealthy("hb"))
    /\ SF_vars(HeartBeat_Done)

\* SpecHB, and the heartbeat loop takes a tick that waits in the ticker's channel:
\* the select has a ready case and the goroutine is scheduled.
SpecHBT ==
    /\ SpecHB
    /\ WF_vars(HeartBeat_Tick)

\* ------------------------------------------------------ the processor
\* the identity accepted peers present in SpecProc: no configured node has this
\* Name, so SyncTopics spawns no task for them
ProcIds == { NameB }

\* The state after the first health pass, go c.CheckHealthy() in Start, has run
\* and the dials it spawned have failed.
InitProc ==
    /\ nlinks = 0
    /\ pc = [l \in LinkIds |-> "none"]
    /\ cid = [l \in LinkIds |-> <<>>]
    /\ typ = [l \in LinkIds |-> TypServer]
    /\ open = [l \in LinkIds |-> FALSE]
    /\ ltopics = [l \in LinkIds |-> {}]
    /\ sent = [l \in LinkIds |-> <<>>]
    /\ old = [l \in LinkIds |-> NoLink]
    /\ cpkt = [l \in LinkIds |-> PingreqPacket]
    /\ work = [l \in LinkIds |-> <<>>]
    /\ recvd = [l \in LinkIds |-> 0]
    /\ clusters = [k \in Keys |-> NoLink]
    /\ clusterTopics = [tk \in Topics \X Keys |-> NoLink]
    /\ brokerTopics = {"t1", "t2"}
    /\ subscribers = [t \in Topics |-> <<"c1">>]
    /\ delivered = [c \in LocalClients |-> <<>>]
    /\ PubSent = 0
    /\ pub = [l \in LinkIds |-> NoPublish]
    /\ published = <<>>
    /\ retains = [t \in Topics |-> IF t = "t1" THEN <<PublishPacket("t1", TRUE, 1)>> ELSE <<>>]
    /\ tasks = [l \in LinkIds |-> [i \in CfgIdx |-> NoTask]]
    /\ starting = [c \in Nodes |-> 0]
    /\ chk = [h \in Passes |-> 0]
    /\ hbpc = "select"
    /\ tickC = FALSE
    /\ nticks = 0
    /\ npasses = 0
    /\ cancelled = FALSE
    /\ synclog = [l \in LinkIds |-> <<>>]
    /\ stored = <<>>
    /\ dtopics = [l \in LinkIds |-> {}]
    /\ req = [l \in LinkIds |-> NoRequest]

\* The processor on accepted links: the links register, their read loops receive
\* subscribe, unsubscribe and ping frames, and end.
NextProc ==
    \/ Accepting(ProcIds)
    \/ Syncing
    \/ Ending
    \/ \E l \in LinkIds : ProcessDisconnect_Topic(l)
    \/ \E l \in LinkIds : ProcessSubscribe(l)
    \/ \E l \in LinkIds : ProcessSubscribe_Topic(l)
    \/ \E l \in LinkIds : ProcessUnSubscribe(l)
    \/ \E l \in LinkIds : ProcessUnSubscribe_Topic(l)
    \/ \E l \in LinkIds : ProcessPing(l)

SpecProc == InitProc /\ [][NextProc]_vars

\* ------------------------------------------------------ the publish fan-out
\* the sequences of at most n elements of S
RECURSIVE SeqsUpTo(_, _)
SeqsUpTo(S, n) ==
    IF n = 0 THEN { <<>> }
    ELSE LET shorter == SeqsUpTo(S, n - 1)
         IN  shorter \cup { Append(q, x) : q \in { r \in shorter : Len(r) = n - 1 }, x \in S }

\* As InitProc, with local clients subscribed: topic "t1" has any sequence of at
\* most MaxSubs subscribers, topic "t2" has one.
InitPub ==
    /\ nlinks = 0
    /\ pc = [l \in LinkIds |-> "none"]
    /\ cid = [l \in LinkIds |-> <<>>]
    /\ typ = [l \in LinkIds |-> TypServer]
    /\ open = [l \in LinkIds |-> FALSE]
    /\ ltopics = [l \in LinkIds |-> {}]
    /\ sent = [l \in LinkIds |-> <<>>]
    /\ old = [l \in LinkIds |-> NoLink]
    /\ cpkt = [l \in LinkIds |-> PingreqPacket]
    /\ work = [l \in LinkIds |-> <<>>]
    /\ recvd = [l \in LinkIds |-> 0]
    /\ clusters = [k \in Keys |-> NoLink]
    /\ clusterTopics = [tk \in Topics \X Keys |-> NoLink]
    /\ \E q \in SeqsUpTo(LocalClients, MaxSubs) :
         subscribers = [t \in Topics |-> IF t = "t1" THEN q ELSE <<"c3">>]
    /\ brokerTopics = { t \in Topics : subscribers[t] # <<>> }
    /\ delivered = [c \in LocalClients |-> <<>>]
    /\ PubSent = 0
    /\ pub = [l \in LinkIds |-> NoPublish]
    /\ published = <<>>
    /\ retains = [t \in Topics |-> IF t = "t1" THEN <<PublishPacket("t1", TRUE, 1)>> ELSE <<>>]
    /\ tasks = [l \in LinkIds |-> [i \in CfgIdx |-> NoTask]]
    /\ starting = [c \in Nodes |-> 0]
    /\ chk = [h \in Passes |-> 0]
    /\ hbpc = "select"
    /\ tickC = FALSE
    /\ nticks = 0
    /\ npasses = 0
    /\ cancelled = FALSE
    /\ synclog = [l \in LinkIds |-> <<>>]
    /\ stored = <<>>
    /\ dtopics = [l \in LinkIds |-> {}]
    /\ req = [l \in LinkIds |-> NoRequest]

\* The processor's publish path: the links register and their read loops receive
\* publish frames.
NextPub ==
    \/ Accepting(AcceptIds)
    \/ Syncing
    \/ SyncTasks
    \/ \E l \in LinkIds : ProcessPublish(l)
    \/ \E l \in LinkIds : DoPublish(l)
    \/ \E l \in LinkIds : DoPublish_Add(l)
    \/ \E l \in LinkIds : ProcessPublish_Retain(l)

SpecPub == InitPub /\ [][NextPub]_vars

\* ------------------------------------------------------ notions the claims use
Range(seq) == { seq[i] : i \in DOMAIN seq }
Count(x, seq) == Cardinality({ i \in DOMAIN seq : seq[i] = x })
Kinds(seq, kind) == { i \in DOMAIN seq : seq[i].kind = kind }

\* the links stored under key k, in the order of their Store
StoredUnder(k) == SelectSeq(stored, LAMBDA q : cid[q] = k)
LastStoredUnder(k) ==
    IF StoredUnder(k) = <<>> THEN NoLink ELSE StoredUnder(k)[Len(StoredUnder(k))]

\* the registration of q has loaded the registry and not yet stored its link
InWindow(q) == pc[q] \in { "srv_close", "srv_connack", "srv_store", "cli_close", "cli_store" }
\* the registration of q has not yet stored its link
Registering(q) == InWindow(q) \/ pc[q] \in { "srv_load", "cli_load" }
\* this step is the Store of l's registration
StoreStep(l) == pc[l] \in { "srv_store", "cli_store" } /\ pc'[l] = "sync"

\* the link registered for configured node c: HandlerClient stores it under c.Name,
\* HandlerServer under the name the peer presents
RegisteredLink(c) ==
    IF clusters[c.Name] # NoLink THEN clusters[c.Name] ELSE clusters[TrimSpace(c.Name)]

\* this step is the iteration for Clusters[i] of health pass h
PassStep(h, i) == chk[h] = i /\ chk'[h] # i

\* ------------------------------------------------------ C1
\* C1: a registration for identity I that finds a link registered under I, and that
\* no other registration for I interleaves with (none stored under I since the
\* load, none is between its load and its store), ends with the registry entry
\* for I being the new link, the previous link closed, and exactly one open link
\* in the registry under I.
C1_DisplaceOld ==
    [][\A l \in LinkIds :
          ( /\ StoreStep(l)
            /\ old[l] # NoLink
            /\ LastStoredUnder(cid[l]) = old[l]
            /\ \A q \in LinkIds \ {l} : ~(InWindow(q) /\ cid[q] = cid[l]) )
          => /\ clusters'[cid[l]] = l
             /\ ~open'[old[l]]
             /\ open'[l]
             /\ Cardinality({ q \in LinkIds : clusters'[cid[l]] = q /\ open'[q] }) = 1]_vars

\* a second link was stored under the identity of a first, which it closed
C1_Witness ==
    \E l \in LinkIds :
        /\ pc[l] = "sync"
        /\ old[l] # NoLink
        /\ stored = << old[l], l >>
        /\ cid[old[l]] = cid[l]
        /\ clusters[cid[l]] = l
        /\ ~open[old[l]] /\ open[l]

\* ------------------------------------------------------ C2
\* C2: under any interleaving of registrations for one identity I, once none of
\* them is still registering, the registry entry for I is the link stored last (or
\* none) and every other link stored under I is closed: no two open links were
\* both registered under I.
C2_NeverTwoOpen ==
    \A k \in Keys :
        (\A q \in LinkIds : ~(Registering(q) /\ cid[q] = k))
        => /\ clusters[k] \in { LastStoredUnder(k), NoLink }
           /\ \A i \in DOMAIN StoredUnder(k) :
                i < Len(StoredUnder(k)) => ~open[StoredUnder(k)[i]]

\* ------------------------------------------------------ C3
\* C3: each iteration of a health pass does what the registry says of that peer:
\* no registered link: exactly one StartClient is spawned and no frame written; a
\* registered link of type TypClient: exactly one ping on it and no dial; a
\* registered link of type TypServer: neither.
C3_HealthPass ==
    [][\A h \in Passes, i \in CfgIdx :
          PassStep(h, i) =>
            LET c == Clusters[i]
                e == RegisteredLink(c)
            IN  /\ e = NoLink =>
                     starting' = [starting EXCEPT ![c] = @ + 1] /\ sent' = sent
                /\ (e # NoLink /\ typ[e] = TypClient) =>
                     sent' = WritePacket(sent, e, PingreqPacket) /\ starting' = starting
                /\ (e # NoLink /\ typ[e] = TypServer) =>
                     starting' = starting /\ sent' = sent]_vars

\* ------------------------------------------------------ C4
\* the identities of the clients of a sequence
Ids(q) == { GetId(q[i]) : i \in DOMAIN q }
\* frames written to the clients of S
RECURSIVE Written(_, _)
Written(d, S) ==
    IF S = {} THEN 0
    ELSE LET c == CHOOSE x \in S : TRUE IN Len(d[c]) + Written(d, S \ {c})
\* this step ends the loop of DoPublish on link l
FanOutEnds(l) == pc[l] \in { "readloop", "pub", "pub_add" } /\ pc'[l] = "pub_retain"

\* C4: when DoPublish has gone through the subscriber sequence of a publish, the
\* frame was written exactly once for each distinct identity of the sequence, to
\* a subscriber of that identity, and the publish has increased PubSent by the
\* number of distinct identities; whatever publishes run on other links, PubSent is
\* the number of frames written less the increments that are still to come.
C4_OncePerIdentity ==
    /\ [][\A l \in LinkIds :
            FanOutEnds(l) =>
              LET p == pub'[l] IN
                /\ Len(p.wrote) = Cardinality(Ids(p.subs))
                /\ \A id \in Ids(p.subs) :
                     Cardinality({ i \in DOMAIN p.wrote : GetId(p.wrote[i]) = id }) = 1
                /\ Range(p.wrote) \subseteq Range(p.subs)
                /\ p.n = Cardinality(Ids(p.subs))]_vars
    /\ [][\A c \in LocalClients :
            delivered'[c] # delivered[c] =>
              \E l \in LinkIds : /\ pc[l] = "pub" /\ pc'[l] = "pub_add"
                                 /\ delivered'[c] = Append(delivered[c], pub[l].pkt)]_vars
    /\ [](PubSent + Cardinality({ l \in LinkIds : pc[l] = "pub_add" })
            = Written(delivered, LocalClients))

\* a publish to three subscribers of two identities has been fanned out on one
\* link while another link was inside the fan-out of its own publish
C4_Witness ==
    \E l \in LinkIds :
        /\ pc[l] = "pub_retain"
        /\ Len(pub[l].subs) = 3
        /\ Cardinality(Ids(pub[l].subs)) = 2
        /\ Len(pub[l].wrote) = 2
        /\ pub[l].n = 2
        /\ \E q \in LinkIds \ {l} : pc[q] = "pub" /\ pub[q].n > 0
        /\ PubSent >= 3

\* ------------------------------------------------------ C5
\* C5: when SyncTopics returns for the link of a configured peer, it has written on
\* that peer's registered link exactly one subscribe frame per topic of the local
\* topic store, and nothing else.
C5_SyncAllTopics ==
    [][\A l \in LinkIds :
          ( /\ pc[l] = "wait" /\ pc'[l] = "readloop"
            /\ \E i \in CfgIdx : Clusters[i].Name = cid[l] )
          => \E e \in LinkIds :
               /\ \A t \in brokerTopics : Count(<<e, t>>, synclog[l]) = 1
               /\ Len(synclog[l]) = Cardinality(brokerTopics)]_vars

\* ------------------------------------------------------ C6
\* this step ends ProcessDisconnect for l
DisconnectEnds(l) == pc[l] \in { "disc_close", "disc_topics" } /\ pc'[l] = "done"

\* C6 as stated: when Disconnect processing for a link with identity I and topic
\* set S ends, the registry has no entry for I, the link is closed, its topic set
\* is empty, and the cluster-subscription registry has no subscription of I for
\* any topic of S.
C6_AsStated ==
    [][\A l \in LinkIds :
          DisconnectEnds(l) =>
            /\ clusters'[cid[l]] = NoLink
            /\ ~open'[l]
            /\ ltopics'[l] = {}
            /\ \A t \in dtopics[l] : clusterTopics'[<<t, cid[l]>>] = NoLink]_vars

\* C6 as amended: once Disconnect processing for link L with identity I and topic
\* set S has ended, L is closed, its topic set is empty, L is not the registry
\* entry for I and no subscription of the cluster-subscription registry refers to
\* L; and when no other link ever had identity I, the registry has no entry for I
\* and the cluster-subscription registry no subscription of I for a topic of S.
C6_DisconnectCleans ==
    \A l \in LinkIds :
        pc[l] = "done"
        => /\ ~open[l]
           /\ ltopics[l] = {}
           /\ clusters[cid[l]] # l
           /\ \A tk \in Topics \X Keys : clusterTopics[tk] # l
           /\ (\A q \in LinkIds \ {l} : cid[q] # cid[l])
              => /\ clusters[cid[l]] = NoLink
                 /\ \A t \in dtopics[l] : clusterTopics[<<t, cid[l]>>] = NoLink

\* Disconnect processing has ended for a link that had subscribed to both topics
C6_Witness ==
    \E l \in LinkIds :
        /\ pc[l] = "done"
        /\ dtopics[l] = Topics
        /\ ltopics[l] = {}
        /\ \A t \in Topics : clusterTopics[<<t, cid[l]>>] = NoLink
        /\ clusters[cid[l]] = NoLink

\* ------------------------------------------------------ C7
\* this step is the end of ProcessPublish on link l
RetainStep(l) == pc[l] = "pub_retain" /\ pc'[l] = "readloop"

\* C7: the end of ProcessPublish for a publish to topic T with the retain flag
\* leaves the retained store without an entry for T and with every other entry as
\* it was; when T had no entry (the same retained publish was processed before),
\* the store stays as it is; a publish without the retain flag, and every other
\* step of a publish, leaves the store as it is.
C7_RetainRemoved ==
    [][/\ \A l \in LinkIds :
            RetainStep(l) =>
              LET T == pub[l].pkt.topics[1] IN
                IF pub[l].pkt.flag
                THEN /\ SearchRetain(retains', T) = <<>>
                     /\ \A t \in Topics \ {T} : retains'[t] = retains[t]
                     /\ SearchRetain(retains, T) = <<>> => retains' = retains
                ELSE retains' = retains
       /\ retains' # retains => \E l \in LinkIds : RetainStep(l) /\ pub[l].pkt.flag]_vars

\* the same retained publish to "t1", which had a retained frame, was processed
\* twice
C7_Witness ==
    /\ Len(published) = 2
    /\ published[1] = published[2]
    /\ published[1].flag /\ published[1].topics = <<"t1">>
    /\ retains["t1"] = <<>>

\* ------------------------------------------------------ C8
\* C8: an accepted connection whose first frame could not be read or was no connect
\* frame is closed, was never stored and had no frame written on it.
C8_RejectedClosed ==
    \A l \in LinkIds :
        (typ[l] = TypServer /\ pc[l] = "rejected")
        => /\ ~open[l]
           /\ l \notin Range(stored)
           /\ sent[l] = <<>>

\* ------------------------------------------------------ C9
\* C9: a heartbeat pass that finds a configured peer absent from the registry spawns
\* exactly one StartClient for that node (name and host), and on every dialed link
\* the first frame written is the connect frame carrying this node's own name: it
\* is there before the link is stored and before any subscribe frame is written.
PeerAbsent(c) == clusters[c.Name] = NoLink /\ clusters[TrimSpace(c.Name)] = NoLink

C9_DialThenHandshake ==
    /\ [][\A i \in CfgIdx :
            (PassStep("hb", i) /\ PeerAbsent(Clusters[i]))
            => starting' = [starting EXCEPT ![Clusters[i]] = @ + 1]]_vars
    /\ [](\A l \in LinkIds :
            (typ[l] = TypClient /\ (l \in Range(stored) \/ Kinds(sent[l], "subscribe") # {}))
            => /\ sent[l] # <<>>
               /\ sent[l][1] = ConnectPacket(ClusterName, TRUE)
               /\ Kinds(sent[l], "connect") = {1})

\* the heartbeat's pass, and no other, dialed a peer; the link is registered and
\* its topics were synchronised
C9_Witness ==
    /\ chk["start"] = 1
    /\ npasses = 1
    /\ \E l \in LinkIds :
         /\ typ[l] = TypClient
         /\ clusters[cid[l]] = l
         /\ Len(sent[l]) > 1
         /\ sent[l][1].kind = "connect" /\ sent[l][2].kind = "subscribe"

\* ------------------------------------------------------ C10
\* C10: the heartbeat loop starts a health pass only from its select, for a tick it
\* takes from the ticker, so that every pass has used up one tick; once Close has
\* cancelled the context the loop returns, whatever the dial tasks of earlier
\* passes do; and once it has returned it stays so and no pass is started or
\* continued.
C10_HeartBeatLoop ==
    /\ [](npasses + (IF tickC THEN 1 ELSE 0) = nticks)
    /\ [][npasses' # npasses =>
            /\ hbpc = "select" /\ tickC /\ ~tickC'
            /\ npasses' = npasses + 1]_vars
    /\ (cancelled ~> hbpc = "returned")
    /\ [][hbpc = "returned" =>
            /\ hbpc' = "returned"
            /\ npasses' = npasses
            /\ chk'["hb"] = chk["hb"]]_vars

\* the loop has returned after a pass of its own, and a dial task that pass
\* spawned has not run yet
C10_Witness ==
    /\ hbpc = "returned"
    /\ npasses = 1
    /\ chk["start"] = 1
    /\ \E c \in Nodes : starting[c] > 0

\* ------------------------------------------------------ C11
\* C11: the step that cancels the context changes nothing but the context: the
\* registry, every link (open or not, its position, its frames), the dial tasks
\* and the synchronisation tasks are as before; and after it a registration that
\* is in flight can still take each of its steps, its Store included, and a dial
\* task that was spawned can still run.
C11_CloseLeavesLinks ==
    /\ [][cancelled' # cancelled =>
            /\ clusters' = clusters
            /\ clusterTopics' = clusterTopics
            /\ linkVars' = linkVars
            /\ starting' = starting
            /\ tasks' = tasks
            /\ stored' = stored]_vars
    /\ [](cancelled =>
            /\ \A l \in LinkIds :
                 /\ pc[l] = "srv_load"  => ENABLED HandlerServer_Load(l)
                 /\ pc[l] = "srv_store" => ENABLED HandlerServer_Store(l)
                 /\ pc[l] = "cli_load"  => ENABLED HandlerClient_Load(l)
                 /\ pc[l] = "cli_store" => ENABLED HandlerClient_Store(l)
            /\ \A c \in Nodes : starting[c] > 0 => ENABLED StartClient(c))

\* the context is cancelled, the heartbeat loop has returned, a registered link is
\* still registered and open, and a dialed link is about to be stored
C11_Witness ==
    /\ cancelled
    /\ hbpc = "returned"
    /\ \E l \in LinkIds : cid[l] \in Keys /\ clusters[cid[l]] = l /\ open[l]
    /\ \E l \in LinkIds : pc[l] = "cli_store"

\* ------------------------------------------------------ C12
\* the retained frames of the topics of a request, in the order of the request
RECURSIVE Replay(_, _)
Replay(rs, ts) ==
    IF ts = <<>> THEN <<>> ELSE SearchRetain(rs, Head(ts)) \o Replay(rs, Tail(ts))
\* the frames written on l since its last request arrived
SinceRequest(s, l) == SubSeq(s[l], req[l].base + 1, Len(s[l]))
\* this step ends ProcessSubscribe on l
SubscribeEnds(l) == pc[l] = "sub" /\ pc'[l] = "readloop"

\* C12: when ProcessSubscribe ends for a request with message identifier M and
\* topics T1..Tn on link L, the frames written on L since the request are the
\* acknowledgment carrying M followed by the retained frames of T1..Tn; for every
\* Ti the cluster-subscription registry holds L under (Ti, identity of L) and Ti is
\* in L's topic set; and a retained frame is written on a link only by that link's
\* own ProcessSubscribe.
C12_SubscribeRegisters ==
    /\ [][\A l \in LinkIds :
            SubscribeEnds(l) =>
              /\ SinceRequest(sent', l)
                   = <<SubackPacket(req[l].mid)>> \o Replay(retains, req[l].topics)
              /\ \A i \in DOMAIN req[l].topics :
                   /\ clusterTopics'[<<req[l].topics[i], cid[l]>>] = l
                   /\ req[l].topics[i] \in ltopics'[l]]_vars
    /\ [][\A q \in LinkIds :
            Kinds(sent'[q], "publish") # Kinds(sent[q], "publish") => pc[q] = "sub"]_vars

\* ------------------------------------------------------ C13
\* this step ends ProcessUnSubscribe on l
UnSubscribeEnds(l) == pc[l] = "unsub" /\ pc'[l] = "readloop"
\* this step is ProcessUnSubscribe's, on l: the acknowledgment or one topic
UnSubscribeStep(l) == pc'[l] = "unsub" \/ UnSubscribeEnds(l)
\* the topics ProcessUnSubscribe has not gone through yet
Named(l) == IF pc[l] = "unsub" THEN { Head(work[l]) } ELSE {}

\* C13: when ProcessUnSubscribe ends for a request with message identifier M and
\* topics T1..Tn on link L, the one frame written on L since the request is the
\* acknowledgment carrying M, no Ti is in L's topic set and the
\* cluster-subscription registry has no subscription of L's identity for any Ti;
\* and each of its steps leaves every topic-set entry and every subscription
\* other than those of the topic it removes as they were.
C13_UnsubscribeRemoves ==
    /\ [][\A l \in LinkIds :
            UnSubscribeEnds(l) =>
              /\ SinceRequest(sent', l) = <<UnsubackPacket(req[l].mid)>>
              /\ \A i \in DOMAIN req[l].topics :
                   /\ req[l].topics[i] \notin ltopics'[l]
                   /\ clusterTopics'[<<req[l].topics[i], cid[l]>>] = NoLink]_vars
    /\ [][\A l \in LinkIds :
            (UnSubscribeStep(l) /\ (pc'[l] # pc[l] \/ work'[l] # work[l])) =>
              /\ \A q \in LinkIds \ {l} : ltopics'[q] = ltopics[q]
              /\ ltopics[l] \ Named(l) = ltopics'[l]
              /\ \A tk \in Topics \X Keys :
                   (tk[1] \notin Named(l) \/ tk[2] # cid[l])
                   => clusterTopics'[tk] = clusterTopics[tk]]_vars

\* ------------------------------------------------------ C14
\* the handshake frame was not written on dialed link l
HandshakeFailed(l) == l <= nlinks /\ typ[l] = TypClient /\ Kinds(sent[l], "connect") = {}
\* this step is a StartClient for node c that fails: the dial, or the write of
\* the handshake frame on the new connection
DialFails(c) ==
    /\ starting'[c] < starting[c]
    /\ nlinks' = nlinks \/ pc'[nlinks'] = "failed"

\* C14: a StartClient that fails, in the dial or in writing the handshake frame,
\* ends there and leaves the registry, the links stored, every existing link and
\* the other dial tasks as they were; a dialed link without its handshake frame is
\* never stored, loads and closes no entry and carries no frame; and a dial task
\* is started only by a health pass whose lookup finds no entry for that peer.
C14_FailedDialAbandoned ==
    /\ [][\A c \in Nodes :
            DialFails(c) =>
              /\ clusters' = clusters
              /\ stored' = stored
              /\ \A l \in 1 .. nlinks : open'[l] = open[l] /\ sent'[l] = sent[l] /\ pc'[l] = pc[l]
              /\ starting' = [starting EXCEPT ![c] = @ - 1]
              /\ tasks' = tasks]_vars
    /\ [](\A l \in LinkIds :
            HandshakeFailed(l) =>
              /\ pc[l] = "failed"
              /\ l \notin Range(stored)
              /\ old[l] = NoLink
              /\ sent[l] = <<>>
              /\ synclog[l] = <<>>)
    /\ [][\A c \in Nodes :
            starting'[c] > starting[c] =>
              \E h \in Passes, i \in CfgIdx :
                /\ PassStep(h, i) /\ Clusters[i] = c
                /\ clusters[TrimSpace(c.Name)] = NoLink
                /\ starting'[c] = starting[c] + 1]_vars

\* the handshake could not be written on a dialed link while another link to the
\* same peer is registered and open
C14_Witness ==
    \E l \in LinkIds :
        /\ pc[l] = "failed"
        /\ HandshakeFailed(l)
        /\ clusters[cid[l]] \in LinkIds \ {l}
        /\ open[clusters[cid[l]]]

Accepted(l) == l <= nlinks /\ typ[l] = TypServer
\* where a link stands once SyncTopics has returned
AfterSync == { "readloop", "sub", "unsub", "pub", "pub_add", "pub_retain",
               "disc_close", "disc_topics", "done" }
\* where an accepted link stands once it is past the close of the entry it loaded
AfterClose == { "srv_connack", "srv_store", "sync", "wait" } \cup AfterSync

\* C16: on every accepted link: the entry it loaded under its identity is closed
\* before the acknowledgment is written; the acknowledgment is the first frame
\* written on the link, and it is written before the link is stored; the
\* synchronisation tasks run only after the Store and while SyncTopics waits; and
\* no frame is received or processed before SyncTopics has returned.
C16_AcceptOrder ==
    \A l \in LinkIds :
        Accepted(l) =>
          /\ (pc[l] \in AfterClose /\ old[l] # NoLink) => ~open[old[l]]
          /\ sent[l] # <<>> => sent[l][1] = ConnackPacket(cpkt[l])
          /\ pc[l] \in { "srv_load", "srv_close", "srv_connack", "rejected" } => sent[l] = <<>>
          /\ pc[l] \in AfterClose \ { "srv_connack" } => Kinds(sent[l], "connack") = {1}
          /\ l \in Range(stored) <=> pc[l] \in { "sync", "wait" } \cup AfterSync
          /\ (\E i \in CfgIdx : tasks[l][i] # NoTask) => pc[l] = "wait"
          /\ synclog[l] # <<>> => pc[l] \in { "wait" } \cup AfterSync
          /\ (recvd[l] > 0 \/ pub[l] # NoPublish \/ req[l] # NoRequest)
             => pc[l] \in AfterSync

\* an accepted link has closed the entry it loaded, was acknowledged, stored and
\* synchronised, and has then received a frame
C16_Witness ==
    \E l \in LinkIds :
        /\ Accepted(l)
        /\ old[l] # NoLink
        /\ ~open[old[l]]
        /\ sent[l] # <<>>
        /\ sent[l][1].kind = "connack"
        /\ synclog[l] # <<>>
        /\ recvd[l] = 1
        /\ pc[l] = "pub"

\* ------------------------------------------------------ C17
\* this step is a step of ProcessPublish on link l
PublishStep(l) ==
    \/ pub'[l] # pub[l]
    \/ pc[l] \in { "pub", "pub_add", "pub_retain" } /\ pc'[l] # pc[l]

\* C17: every step of ProcessPublish leaves the cluster registry, the
\* cluster-subscription registry, every link's topic set and the frames written
\* on every peer link as they were, and writes at most one frame, the publish
\* frame, to a subscriber the local topic store returned for its topic.
C17_PublishStaysLocal ==
    [][\A l \in LinkIds :
            PublishStep(l) =>
              /\ clusters' = clusters
              /\ clusterTopics' = clusterTopics
              /\ ltopics' = ltopics
              /\ sent' = sent
              /\ open' = open
              /\ \A c \in LocalClients :
                   delivered'[c] # delivered[c] =>
                     /\ c \in Range(subscribers[pub[l].pkt.topics[1]])
                     /\ delivered'[c] = Append(delivered[c], pub[l].pkt)]_vars

\* a publish received on one link was written to a local subscriber while another
\* peer link is registered and open, and neither link carries a publish frame
C17_Witness ==
    \E l \in LinkIds, q \in LinkIds :
        /\ l # q
        /\ pc[l] = "pub_retain"
        /\ pub[l].n >= 1
        /\ Len(delivered[pub[l].wrote[1]]) >= 1
        /\ pc[q] = "readloop" /\ open[q] /\ clusters[cid[q]] = q
        /\ Kinds(sent[l], "publish") = {} /\ Kinds(sent[q], "publish") = {}

\* ------------------------------------------------------ C18
\* this step is a step of ProcessDisconnect on link l
DisconnectStep(l) ==
    /\ pc[l] \in { "readloop", "disc_close", "disc_topics" }
    /\ pc'[l] \in { "disc_close", "disc_topics", "done" }
    /\ pc'[l] # pc[l] \/ ltopics'[l] # ltopics[l]

\* link l was displaced by link q: q loaded l as the entry of their identity,
\* closed it and is now the entry
Displaced(l, q) ==
    /\ q # l /\ old[q] = l /\ ~open[l]
    /\ cid[q] = cid[l] /\ clusters[cid[l]] = q

\* C18: a step of ProcessDisconnect on a link with identity I that a newer link
\* has displaced leaves the registry mapping I to the newer link and leaves the
\* newer link open.
C18_NewerLinkStays ==
    [][\A l \in LinkIds, q \in LinkIds :
          (DisconnectStep(l) /\ Displaced(l, q))
          => /\ clusters'[cid[l]] = q
             /\ open'[q] = open[q]]_vars

\* the subscriptions of identity k, as the cluster-subscription registry has them,
\* that refer to link l
SubscribedTopics(k, l) == { t \in Topics : clusterTopics[<<t, k>>] = l }

\* C19: for the link registered under an identity and every topic, the topic is in
\* the link's own topic set exactly when the cluster-subscription registry holds
\* a subscription of that identity for the topic that refers to the link.
C19_TopicsAgree ==
    \A k \in Keys :
       clusters[k] # NoLink => ltopics[clusters[k]] = SubscribedTopics(k, clusters[k])

\* ------------------------------------------------------ the links over time
\* the goroutine of link l has returned
Finished(l) == l <= nlinks /\ pc[l] \in { "done", "failed", "rejected" }

\* no registry holds link l and no running handler or task holds it in a local
\* variable it still reads (old of HandlerServer and HandlerClient, exist of
\* syncNodeTopics)
Unreferenced(l) ==
    /\ \A k \in Keys : clusters[k] # l
    /\ \A tk \in Topics \X Keys : clusterTopics[tk] # l
    /\ \A q \in LinkIds : old[q] = l => pc[q] \notin { "srv_close", "cli_close" }
    /\ \A q \in LinkIds, i \in CfgIdx : tasks[q][i].exist = l => tasks[q][i].pc # "range"

\* the number of link q once link l is gone; a reference to l itself is dropped
Renumber(l, q) == IF q = l THEN NoLink ELSE IF q > l THEN q - 1 ELSE q

\* a per-link variable once link l is gone: the links above l move down one place
\* and the last place is as new
Moved(l, f, new) ==
    [q \in LinkIds |-> IF q < l THEN f[q] ELSE IF q < nlinks THEN f[q + 1] ELSE new]

RECURSIVE RenumberLog(_, _)
RenumberLog(l, log) ==
    IF log = <<>> THEN <<>>
    ELSE <<  << Renumber(l, Head(log)[1]), Head(log)[2] >>  >> \o RenumberLog(l, Tail(log))

RECURSIVE RenumberStored(_, _)
RenumberStored(l, st) ==
    IF st = <<>> THEN <<>>
    ELSE (IF Head(st) = l THEN <<>> ELSE << Renumber(l, Head(st)) >>)
         \o RenumberStored(l, Tail(st))

\* HandlerServer line 60 and HandlerClient line 139: client.ReadLoop returns, the
\* handler returns and its goroutine ends (as it does at lines 39, 44 and 128).
\* Nothing refers to the link any more, so it is dropped and the links created
\* after it are numbered afresh.
Collect(l) ==
    /\ Finished(l)
    /\ Unreferenced(l)
    /\ nlinks' = nlinks - 1
    /\ pc' = Moved(l, pc, "none")
    /\ cid' = Moved(l, cid, <<>>)
    /\ typ' = Moved(l, typ, TypServer)
    /\ open' = Moved(l, open, FALSE)
    /\ ltopics' = Moved(l, ltopics, {})
    /\ sent' = Moved(l, sent, <<>>)
    /\ old' = Moved(l, [q \in LinkIds |-> Renumber(l, old[q])], NoLink)
    /\ cpkt' = Moved(l, cpkt, PingreqPacket)
    /\ work' = Moved(l, work, <<>>)
    /\ recvd' = Moved(l, recvd, 0)
    /\ dtopics' = Moved(l, dtopics, {})
    /\ req' = Moved(l, req, NoRequest)
    /\ pub' = Moved(l, pub, NoPublish)
    /\ synclog' = Moved(l, [q \in LinkIds |-> RenumberLog(l, synclog[q])], <<>>)
    /\ tasks' = Moved(l, [q \in LinkIds |->
                            [i \in CfgIdx |->
                               [tasks[q][i] EXCEPT !.exist = Renumber(l, @)]]],
                      [i \in CfgIdx |-> NoTask])
    /\ clusters' = [k \in Keys |-> Renumber(l, clusters[k])]
    /\ clusterTopics' = [tk \in Topics \X Keys |-> Renumber(l, clusterTopics[tk])]
    /\ stored' = RenumberStored(l, stored)
    /\ UNCHANGED << starting, hbVars >>
    /\ UNCHANGED << brokerTopics, retains, subscribers, delivered, PubSent, published >>

\* HeartBeat lines 234-241: the ticker never stops and the loop has no last pass.
\* The ticks and the passes are counted up to MaxTicks and then counted afresh,
\* once the dial tasks of the earlier passes have begun to run.
Rewind ==
    /\ nticks = MaxTicks
    /\ ~tickC
    /\ \A c \in Nodes : starting[c] = 0
    /\ nticks' = 0
    /\ npasses' = 0
    /\ UNCHANGED << chk, hbpc, tickC, cancelled, clusters, clusterTopics, tasks, starting,
                    synclog, stored, dtopics, req >>
    /\ UNCHANGED << linkVars, storeVars >>

\* the configured peers that stay reachable; a dial to any other peer fails
Reachable == { c \in Nodes : c.Name = PadB }

\* StartClient when nothing fails for a network reason: the dial to a reachable
\* peer gives a connection and the handshake is written on it
Dial(c) ==
    /\ StartClient(c)
    /\ IF c \in Reachable
       THEN nlinks' = nlinks + 1 /\ pc'[nlinks'] = "cli_load"
       ELSE nlinks' = nlinks

\* the read loop of a link ends only because the link was closed
ReadLoopEnds(l) == ~open[l] /\ ProcessDisconnect(l)

\* The cluster manager over an unbounded time, with peers that do not dial this
\* node: no read or write fails for a network reason and Close is not called.
NextLive ==
    \/ \E c \in Nodes : Dial(c)
    \/ \E l \in LinkIds : HandlerClient_Load(l)
    \/ \E l \in LinkIds : HandlerClient_Close(l)
    \/ \E l \in LinkIds : HandlerClient_Store(l)
    \/ Syncing
    \/ \E l \in LinkIds, i \in CfgIdx : syncNodeTopics_Load(l, i)
    \/ \E l \in LinkIds : ReadLoopEnds(l)
    \/ \E l \in LinkIds : ProcessDisconnect_Close(l)
    \/ \E h \in Passes : CheckHealthy(h)
    \/ Tick
    \/ HeartBeat_Tick
    \/ \E l \in LinkIds : Collect(l)
    \/ Rewind

\* Fair scheduling: every goroutine that can take its next step takes it, and the
\* ticker keeps firing.
FairLive ==
    /\ \A c \in Nodes : WF_vars(Dial(c))
    /\ \A l \in LinkIds :
         /\ WF_vars(HandlerClient_Load(l))
         /\ WF_vars(HandlerClient_Close(l))
         /\ WF_vars(HandlerClient_Store(l))
         /\ WF_vars(SyncTopics(l))
         /\ WF_vars(SyncTopics_Wait(l))
         /\ WF_vars(ReadLoopEnds(l))
         /\ WF_vars(ProcessDisconnect_Close(l))
         /\ WF_vars(Collect(l))
         /\ \A i \in CfgIdx : WF_vars(syncNodeTopics_Load(l, i))
    /\ \A h \in Passes : WF_vars(CheckHealthy(h))
    /\ WF_vars(Tick)
    /\ WF_vars(HeartBeat_Tick)
    /\ WF_vars(Rewind)

SpecLive == Init /\ [][NextLive]_vars /\ FairLive

\* the registry holds an open link under the name of peer c
Settled(c) == clusters[c.Name] # NoLink /\ open[clusters[c.Name]]

\* C20: under fair scheduling, with peer P reachable, no network failure and no
\* shutdown, from some moment on the registry always holds an open link for P
\* (which it must, if it is to hold one and the same open link from then on).
C20_LinkSettles == \A c \in Reachable : <>[]Settled(c)

====
